---- MODULE Spec2Model ----
(***************************************************************************)
(* A model of discord_logs_uploader.py: the two bot commands, and the      *)
(* pipeline logs_upload that unpacks a combined archive into a temporary   *)
(* directory, optionally splices animation files into each team archive,   *)
(* and sends each team archive to the team's channel.                      *)
(*                                                                         *)
(* File and channel names are sequences of one-character strings, so that  *)
(* lower(), startswith(), endswith() and the regular expression of         *)
(* get_team_channel are computed as the code computes them.                *)
(***************************************************************************)
EXTENDS Integers, Sequences, FiniteSets, Bags, TLC

\* ------------------------------------------------------------------ bounds

\* The largest number of entries of a combined archive given to logs_upload.
MaxEntries == 2

\* The largest number of entries of a combined archive given to a command.
MaxCommandEntries == 1

\* ------------------------------------------------------------- characters

UpperChars ==
  <<"A","B","C","D","E","F","G","H","I","J","K","L","M",
    "N","O","P","Q","R","S","T","U","V","W","X","Y","Z">>

LowerChars ==
  <<"a","b","c","d","e","f","g","h","i","j","k","l","m",
    "n","o","p","q","r","s","t","u","v","w","x","y","z">>

\* The lower-case letter of each upper-case letter.
ToLower ==
  [c \in { UpperChars[i] : i \in DOMAIN UpperChars } |->
     LowerChars[CHOOSE i \in DOMAIN UpperChars : UpperChars[i] = c]]

\* str.lower() on one character: other characters are left as they are.
LowerChar(c) ==
  IF c \in DOMAIN ToLower THEN ToLower[c] ELSE c

\* str.lower()
lower(s) == [i \in 1..Len(s) |-> LowerChar(s[i])]

\* str.startswith(prefix)
startswith(s, prefix) ==
  /\ Len(prefix) <= Len(s)
  /\ SubSeq(s, 1, Len(prefix)) = prefix

\* str.endswith(suffix)
endswith(s, suffix) ==
  /\ Len(suffix) <= Len(s)
  /\ SubSeq(s, Len(s) - Len(suffix) + 1, Len(s)) = suffix

\* ------------------------------------------------------ program constants

TEAM_PREFIX == <<"t","e","a","m","-">>

COMMON_CHANNEL == <<"g","e","n","e","r","a","l">>

\* The three command options, and what each gives as team_animation.
ANIMATION_OPTIONS ==
  [none |-> "None", team |-> "True", separate |-> "False"]

DotZip == <<".","z","i","p">>

AnimationsPrefix == <<"a","n","i","m","a","t","i","o","n","s">>

AnimationsZip == AnimationsPrefix \o DotZip

\* The size, in bytes, above which a file is too large: 8 * 1000**2.
SIZE_LIMIT == 8000000

\* ------------------------------------------------------------ environment

\* The channels of the guild: each a name (lower case) and a type.
GuildChannels ==
  { [name |-> <<"t","e","a","m","-","a">>, type |-> "text"],
    [name |-> <<"t","e","a","m","-","b">>, type |-> "text"],
    [name |-> <<"t","e","a","m","-","v">>, type |-> "voice"],
    [name |-> COMMON_CHANNEL,              type |-> "text"] }

\* The channel the command was sent in (ctx.channel).
CtxChannel == <<"d","m">>

\* The value of a missing object (None).
None == <<>>

\* 'match-', as match_animation_files searches for it and globs it.
MatchPrefix == <<"m","a","t","c","h","-">>

\* [0-9]
Digits == {"0","1","2","3","4","5","6","7","8","9"}

DotTxt == <<".","t","x","t">>

DotMp4 == <<".","m","p","4">>

DotPng == <<".","p","n","g">>

\* 'textures', the directory of the bundle that is spliced whole.
Textures == <<"t","e","x","t","u","r","e","s">>

\* Entries a combined archive may hold; a name stands for one content, so
\* that zipfile.extract, which takes a name, gives the entry listed. size is
\* the entry's size in bytes;
\* valid is what is_zipfile says of the extracted entry; corrupt is whether
\* opening it for reading raises BadZipFile; files is its namelist(): the
\* logs of a team's archive, the assets of a bundle.
EntryPool ==
  { \* team-A.zip: a team with a text channel
    [name |-> <<"t","e","a","m","-","A",".","z","i","p">>,
     size |-> 1000000, valid |-> TRUE, corrupt |-> FALSE,
     files |-> <<MatchPrefix \o <<"3">> \o DotTxt,
                 MatchPrefix \o <<"4">> \o DotTxt>>],
    \* team-B-1.zip: fits the limit exactly, too large once spliced
    [name |-> <<"t","e","a","m","-","B","-","1",".","z","i","p">>,
     size |-> 8000000, valid |-> TRUE, corrupt |-> FALSE,
     files |-> <<MatchPrefix \o <<"1">> \o DotTxt>>],
    \* team-A-2.zip: too large as it is
    [name |-> <<"t","e","a","m","-","A","-","2",".","z","i","p">>,
     size |-> 8000001, valid |-> TRUE, corrupt |-> FALSE,
     files |-> <<MatchPrefix \o <<"1","2">> \o DotTxt>>],
    \* team-V.zip: the channel is a voice channel
    [name |-> <<"t","e","a","m","-","V",".","z","i","p">>,
     size |-> 1000000, valid |-> TRUE, corrupt |-> FALSE,
     files |-> <<<<"s","u","m","m","a","r","y">> \o DotTxt>>],
    \* team-M.zip: no such channel
    [name |-> <<"t","e","a","m","-","M",".","z","i","p">>,
     size |-> 1000000, valid |-> TRUE, corrupt |-> FALSE,
     files |-> <<MatchPrefix \o <<"3",".","l","o","g">>>>],
    \* team-B.zip: not a ZIP file
    [name |-> <<"t","e","a","m","-","B",".","z","i","p">>,
     size |-> 1000, valid |-> FALSE, corrupt |-> TRUE,
     files |-> <<>>],
    \* TEAM-A.ZIP: accepted by the filter, compared in lower case
    [name |-> <<"T","E","A","M","-","A",".","Z","I","P">>,
     size |-> 1000000, valid |-> TRUE, corrupt |-> FALSE,
     files |-> <<MatchPrefix \o <<"x">> \o DotTxt>>],
    \* notes.txt: not a ZIP name
    [name |-> <<"n","o","t","e","s",".","t","x","t">>,
     size |-> 1000, valid |-> FALSE, corrupt |-> TRUE,
     files |-> <<>>],
    \* animations.zip: a bundle
    [name |-> AnimationsZip,
     size |-> 2000000, valid |-> TRUE, corrupt |-> FALSE,
     files |-> <<MatchPrefix \o <<"3">> \o DotPng,
                 MatchPrefix \o <<"3">> \o DotMp4,
                 MatchPrefix \o <<"4">> \o DotMp4,
                 MatchPrefix \o <<"1","2">> \o DotPng,
                 Textures \o <<"/","a">> \o DotPng>>],
    \* animations-bad.zip: a bundle that cannot be opened
    [name |-> AnimationsPrefix \o <<"-","b","a","d">> \o DotZip,
     size |-> 1000, valid |-> FALSE, corrupt |-> TRUE,
     files |-> <<>>] }

\* The combined archives of at most max entries: the entries in archive
\* order.
Archives(max) ==
  UNION { [1..n -> EntryPool] : n \in 0..max }

\* The channels of the guild that DISCORD_GUILD names, used in test mode:
\* team-m exists there, team-v does not.
TestGuildChannels ==
  { [name |-> <<"t","e","a","m","-","a">>, type |-> "text"],
    [name |-> <<"t","e","a","m","-","b">>, type |-> "text"],
    [name |-> <<"t","e","a","m","-","m">>, type |-> "text"],
    [name |-> COMMON_CHANNEL,              type |-> "text"] }

\* The process environments: the two mode flags, whether the command came
\* from a guild (ctx.guild), and DISCORD_GUILD: unset, naming a guild the
\* bot does not know, or naming the test guild. A value the code does not use
\* in a mode is fixed in that mode: DISCORD_GUILD is read in test mode only;
\* in debug mode get_channel returns before it uses any guild (the command
\* then comes from a private message, with no guild); in test mode ctx.guild
\* is replaced (the command then comes from a guild, which is not the one
\* looked in).
Envs ==
  { e \in [debug : BOOLEAN, testing : BOOLEAN, ctx_guild : BOOLEAN,
           env_guild : {"unset", "unknown", "known"}] :
      /\ ~e.testing => e.env_guild = "unset"
      /\ e.debug => ~e.ctx_guild /\ e.env_guild = "unset"
      /\ e.testing /\ ~e.debug => e.ctx_guild }

VARIABLES
  DISCORD_DEBUG,    \* the DISCORD_DEBUG flag
  DISCORD_TESTING,  \* the DISCORD_TESTING flag
  ctx_guild,        \* whether ctx.guild is a guild
  env_guild,        \* DISCORD_GUILD: "unset", "unknown" or "known"
  caller,           \* "logs", "logs_url" or "logs_upload" (a direct call)
  animations,       \* the animations argument of the command
  team_animation,   \* logs_upload's argument: "None", "True" or "False"
  zip_openable,     \* whether ZipFile(file) opens the combined archive
  archive,          \* the entries of the combined archive, in order
  pc,               \* the position in the command and in logs_upload
  idx,              \* the index in zipfile.namelist() of the current entry
  exc,              \* the exception being propagated, or "none"
  tmpdir,           \* whether the temporary directory exists
  tmpfiles,         \* the files of the temporary directory, by name
  animdir,          \* whether tmpdir/animations exists (the expanded bundle)
  animfiles,        \* the files of tmpdir/animations, by relative path
  created,          \* how many times a temporary directory was created
  cleanups,         \* how many times it was removed
  animations_found, \* logs_upload's local
  completed_tlas,   \* logs_upload's local
  tla,              \* the team code of the current entry
  channel,          \* the channel of the current entry, or None
  replies,          \* what was sent to the invoking user, in order
  logs,             \* the logger's lines, in order
  sent,             \* the calls of send_file, in order
  summaries,        \* the success summaries sent: each a count and the codes
  steps,            \* the steps taken for each entry, in order
  anim_calls,       \* the calls of extract_animations, with what they did
  lookups,          \* the calls of get_channel, with their outcomes
  team_lookups,     \* the calls of get_team_channel, with their outcomes
  match_calls       \* the calls of match_animation_files, with their outcomes

vars ==
  <<DISCORD_DEBUG, DISCORD_TESTING, ctx_guild, env_guild, caller, animations,
    team_animation, zip_openable, archive, pc, idx, exc, tmpdir, tmpfiles,
    animdir, created, cleanups, animations_found, completed_tlas, tla,
    channel, replies, logs, sent, summaries, steps, animfiles, anim_calls,
    lookups, team_lookups, match_calls>>

envVars == <<DISCORD_DEBUG, DISCORD_TESTING, ctx_guild, env_guild>>

inputVars == <<caller, animations, team_animation, zip_openable, archive>>

fsVars == <<tmpdir, tmpfiles, animdir, animfiles, created, cleanups>>

calls == <<anim_calls, lookups, team_lookups, match_calls>>

\* -------------------------------------------------------------- log_and_reply

\* A line of output: its kind and the name it is about.
Line(kind, arg) == [kind |-> kind, arg |-> arg]

\* log_and_reply(ctx, error_str): logger.error, then ctx.reply.
log_and_reply(kind, arg) ==
  /\ logs' = Append(logs, [level |-> "error", kind |-> kind, arg |-> arg])
  /\ replies' = Append(replies, Line(kind, arg))

\* ------------------------------------------------------------ get_channel

\* The guild of the command looked in, in test mode as well.
LookupGuild_OfContext == IF ctx_guild THEN "ctx" ELSE "none"

\* The guild get_channel looks in: "none", "ctx" or "test".
LookupGuild ==
  IF DISCORD_TESTING
  THEN (IF env_guild = "known" THEN "test" ELSE "none")
  ELSE (IF ctx_guild THEN "ctx" ELSE "none")

ChannelsOf(guild) ==
  IF guild = "test" THEN TestGuildChannels ELSE GuildChannels

\* discord.utils.get(guild.channels, name=channel_name): the matching
\* channels (at most one in these guilds).
FindChannel(guild, channel_name) ==
  { c \in ChannelsOf(guild) : c.name = channel_name }

\* get_channel looking for the name in the case it was given.
get_channel_CaseSensitive(channel_name) ==
  LET found == FindChannel(LookupGuild, channel_name)
  IN  IF DISCORD_DEBUG
      THEN [raised |-> FALSE, channel |-> CtxChannel, reply |-> "",
            arg |-> channel_name]
      ELSE IF LookupGuild = "none"
      THEN [raised |-> TRUE, channel |-> None, reply |-> "",
            arg |-> channel_name]
      ELSE IF found = {}
      THEN [raised |-> FALSE, channel |-> None,
            reply |-> "channel_not_found", arg |-> channel_name]
      ELSE IF (CHOOSE c \in found : TRUE).type # "text"
      THEN [raised |-> FALSE, channel |-> None,
            reply |-> "not_a_text_channel", arg |-> channel_name]
      ELSE [raised |-> FALSE, channel |-> channel_name, reply |-> "",
            arg |-> channel_name]

\* get_channel taking the missing guild for a missing channel: None and
\* the 'not found' diagnostic, nothing raised.
get_channel_NoGuildNotFound(channel_name) ==
  LET name == lower(channel_name)
      found == FindChannel(LookupGuild, name)
  IN  IF DISCORD_DEBUG
      THEN [raised |-> FALSE, channel |-> CtxChannel, reply |-> "", arg |-> name]
      ELSE IF LookupGuild = "none" \/ found = {}
      THEN [raised |-> FALSE, channel |-> None,
            reply |-> "channel_not_found", arg |-> name]
      ELSE IF (CHOOSE c \in found : TRUE).type # "text"
      THEN [raised |-> FALSE, channel |-> None,
            reply |-> "not_a_text_channel", arg |-> name]
      ELSE [raised |-> FALSE, channel |-> name, reply |-> "", arg |-> name]

\* get_channel(ctx, channel_name): raised is whether NoPrivateMessage is
\* raised, channel the channel returned (None for none), reply the
\* diagnostic sent ("" for none) and arg the name the diagnostic gives.
get_channel(channel_name) ==
  LET name == lower(channel_name)
      found == FindChannel(LookupGuild, name)
  IN  IF DISCORD_DEBUG
      THEN [raised |-> FALSE, channel |-> CtxChannel, reply |-> "", arg |-> name]
      ELSE IF LookupGuild = "none"
      THEN [raised |-> TRUE, channel |-> None, reply |-> "", arg |-> name]
      ELSE IF found = {}
      THEN [raised |-> FALSE, channel |-> None,
            reply |-> "channel_not_found", arg |-> name]
      ELSE IF (CHOOSE c \in found : TRUE).type # "text"
      THEN [raised |-> FALSE, channel |-> None,
            reply |-> "not_a_text_channel", arg |-> name]
      ELSE [raised |-> FALSE, channel |-> name, reply |-> "", arg |-> name]

\* ------------------------------------------------------- get_team_channel

\* The places where re.match(TEAM_PREFIX + r'(.*?)[-.]', archive_name) can
\* end the group: the separators after the prefix.
Separators(archive_name) ==
  { j \in (Len(TEAM_PREFIX) + 1)..Len(archive_name) :
      archive_name[j] \in {"-", "."} }

\* Whether the regular expression matches: the prefix, in its own case, and
\* a separator somewhere after it.
tla_search(archive_name) ==
  /\ startswith(archive_name, TEAM_PREFIX)
  /\ Separators(archive_name) # {}

Min(S) == CHOOSE x \in S : \A y \in S : x <= y

\* The group matched greedily: up to the last separator.
tla_group_Greedy(archive_name) ==
  SubSeq(archive_name, Len(TEAM_PREFIX) + 1,
         (CHOOSE j \in Separators(archive_name) :
            \A h \in Separators(archive_name) : h <= j) - 1)

\* tla_search.group(1): the shortest match, up to the first separator.
tla_group(archive_name) ==
  SubSeq(archive_name, Len(TEAM_PREFIX) + 1, Min(Separators(archive_name)) - 1)

\* get_team_channel(ctx, archive_name, zip_name): the code, and get_channel's
\* result for TEAM_PREFIX + code; matched is whether a code was extracted.
get_team_channel(archive_name) ==
  IF ~tla_search(archive_name)
  THEN [matched |-> FALSE, tla |-> <<>>,
        res |-> [raised |-> FALSE, channel |-> None,
                 reply |-> "failed_to_extract_tla", arg |-> archive_name]]
  ELSE [matched |-> TRUE, tla |-> tla_group(archive_name),
        res |-> get_channel(TEAM_PREFIX \o tla_group(archive_name))]

\* ------------------------------------------------------- pre_test_zipfile

\* The filter comparing the name in the case it has.
pre_test_zipfile_CaseSensitive(archive_name) ==
  /\ endswith(archive_name, DotZip)
  /\ startswith(archive_name, TEAM_PREFIX)

\* pre_test_zipfile(archive_name, zip_name)
pre_test_zipfile(archive_name) ==
  /\ endswith(lower(archive_name), DotZip)
  /\ startswith(lower(archive_name), TEAM_PREFIX)

\* The debug line pre_test_zipfile logs for a name it rejects.
pre_test_log(archive_name) ==
  IF ~endswith(lower(archive_name), DotZip)
  THEN <<[level |-> "debug", kind |-> "not_a_zip", arg |-> archive_name]>>
  ELSE IF ~startswith(lower(archive_name), TEAM_PREFIX)
  THEN <<[level |-> "debug", kind |-> "no_team_prefix", arg |-> archive_name]>>
  ELSE <<>>

\* ------------------------------------------------------------- send_file

\* The size test with >= : a file of exactly the limit is refused.
too_large_AtLimit(file) == file.size >= SIZE_LIMIT

\* Whether st_size / 1000**2 > 8.
too_large(file) == file.size > SIZE_LIMIT

\* What channel.send does with the file: "ok", an HTTPException of status
\* 413 for a file over the platform's limit, or, on a fault, an
\* HTTPException of another status.
channel_send(file, fault) ==
  IF fault THEN "500"
  ELSE IF too_large(file) THEN "413"
  ELSE "ok"

\* send_file with a handler that takes every HTTPException for a size
\* failure.
send_file_CatchAll(file, fault) ==
  IF DISCORD_TESTING
  THEN (IF too_large(file) THEN "False" ELSE "True")
  ELSE IF channel_send(file, fault) = "ok" THEN "True" ELSE "False"

\* send_file's result: "True", "False", or "raise" when the exception is
\* raised again. In test mode nothing is sent and the size is checked.
send_file(file, fault) ==
  IF DISCORD_TESTING
  THEN (IF too_large(file) THEN "False" ELSE "True")
  ELSE CASE channel_send(file, fault) = "ok"  -> "True"
         [] channel_send(file, fault) = "413" -> "False"
         [] OTHER                             -> "raise"

\* Whether a call of send_file can meet a transport fault: only when it
\* sends.
Faults == IF DISCORD_TESTING THEN {FALSE} ELSE BOOLEAN

\* ----------------------------------------------------- extract_animations

\* animation_files: the indexes of the entries named animations*.zip.
animation_files ==
  { i \in 1..Len(archive) :
      /\ startswith(archive[i].name, AnimationsPrefix)
      /\ endswith(archive[i].name, DotZip) }

\* The entry as a file of the temporary directory, as extracted.
File(e) ==
  [name |-> e.name, size |-> e.size, valid |-> e.valid,
   corrupt |-> e.corrupt, files |-> e.files, added |-> EmptyBag,
   spliced |-> FALSE]

\* zipfile.extract(name, path=tmpdir): the file is written, over any file of
\* that name.
extract(files, e) == (e.name :> File(e)) @@ files

\* animations_zip.extractall(tmpdir / 'animations'): the paths of the files
\* written, relative to that directory.
extractall(file) == { file.files[i] : i \in 1..Len(file.files) }

\* extract_animations taking the first of the bundles though there is none:
\* the run ends there.
extract_animations_RaiseOnMissing(files, fully_extract) ==
  [found |-> FALSE, files |-> files, dir |-> FALSE, dirfiles |-> {},
   raised |-> animation_files = {}, log |-> <<>>]

\* What extract_animations(zipfile, tmpdir, fully_extract) returns and does:
\* found is the result, files the temporary directory afterwards, dir
\* whether tmpdir/animations was made and dirfiles the files in it, raised
\* whether opening animations.zip raised BadZipFile, log the lines logged.
extract_animations(files, fully_extract) ==
  IF animation_files = {}
  THEN [found |-> FALSE, files |-> files, dir |-> FALSE, dirfiles |-> {},
        raised |-> FALSE, log |-> <<>>]
  ELSE LET first == archive[Min(animation_files)]
           moved == [File(first) EXCEPT !.name = AnimationsZip]
           after == (AnimationsZip :> moved) @@ files
       IN  IF fully_extract /\ first.corrupt
           THEN [found |-> FALSE, files |-> after, dir |-> FALSE,
                 dirfiles |-> {}, raised |-> TRUE, log |-> <<>>]
           ELSE [found |-> TRUE, files |-> after, dir |-> fully_extract,
                 dirfiles |-> IF fully_extract THEN extractall(moved) ELSE {},
                 raised |-> FALSE,
                 log |-> IF fully_extract
                         THEN <<[level |-> "debug",
                                 kind |-> "extracting_animations",
                                 arg |-> <<>>]>>
                         ELSE <<>>]

\* --------------------------------------------------- match_animation_files

Max(S) == CHOOSE x \in S : \A y \in S : y <= x

\* Path.name: the path after its last '/'.
PathName(path) ==
  LET slashes == { i \in 1..Len(path) : path[i] = "/" }
  IN  IF slashes = {} THEN path
      ELSE SubSeq(path, Max(slashes) + 1, Len(path))

\* Path.suffix: the name from its last '.' on, or '' when the name has no
\* '.' past its first character or ends with it.
PathSuffix(path) ==
  LET n == PathName(path)
      dots == { i \in 2..(Len(n) - 1) : n[i] = "." }
  IN  IF dots = {} \/ n[Len(n)] = "." THEN <<>>
      ELSE SubSeq(n, Max(dots), Len(n))

\* re.search(r'match-([0-9]+)', log_name): where 'match-' and a digit
\* stand in the name.
match_search(log_name) ==
  { i \in 1..(Len(log_name) - Len(MatchPrefix)) :
      /\ SubSeq(log_name, i, i + Len(MatchPrefix) - 1) = MatchPrefix
      /\ log_name[i + Len(MatchPrefix)] \in Digits }

\* match.group(1): the digits after the leftmost 'match-', as many as there
\* are.
match_group(log_name) ==
  LET from == Min(match_search(log_name)) + Len(MatchPrefix)
      others == { j \in from..Len(log_name) : log_name[j] \notin Digits }
  IN  SubSeq(log_name, from,
             IF others = {} THEN Len(log_name) ELSE Min(others) - 1)

\* The pattern without its '.': match-1 takes the files of match-12 too.
glob_match_NoDot(animation_dir, match_num) ==
  { f \in animation_dir :
      /\ PathName(f) = f
      /\ startswith(f, MatchPrefix \o match_num) }

\* animation_dir.glob(f'match-{match_num}.*'): the files of the directory
\* itself whose names begin so. animation_dir is the set of the paths of
\* its files, relative to it.
glob_match(animation_dir, match_num) ==
  { f \in animation_dir :
      /\ PathName(f) = f
      /\ startswith(f, MatchPrefix \o match_num \o <<".">>) }

\* match_animation_files(log_name, animation_dir): the files returned and
\* the line logged.
match_animation_files(log_name, animation_dir) ==
  IF match_search(log_name) = {}
  THEN [files |-> {},
        log |-> [level |-> "warning", kind |-> "invalid_match_name",
                 arg |-> log_name]]
  ELSE LET match_num == match_group(log_name)
       IN  [files |-> { f \in glob_match(animation_dir, match_num) :
                          PathSuffix(f) # DotMp4 },
            log |-> [level |-> "debug", kind |-> "fetching_animation_files",
                     arg |-> match_num]]

\* ----------------------------------------------------- insert_match_files

\* The log names insert_match_files looks at: the names of the archive that
\* end with '.txt', in namelist() order.
log_names(file) == SelectSeq(file.files, LAMBDA n : endswith(n, DotTxt))

\* zipfile.write(file.resolve(), file.name) for the files matched to each
\* of the log names: the names written, each as many times as written.
RECURSIVE match_files_written(_, _)
match_files_written(names, animation_dir) ==
  IF names = <<>> THEN EmptyBag
  ELSE SetToBag({ PathName(f) :
                  f \in match_animation_files(Head(names),
                                              animation_dir).files })
       (+) match_files_written(Tail(names), animation_dir)

\* The textures left out of the splice.
textures_written_None(animation_dir) == EmptyBag

\* (animation_dir / 'textures').glob('** / *'): the files below textures,
\* written under their paths relative to animation_dir.
textures_written(animation_dir) ==
  SetToBag({ f \in animation_dir : startswith(f, Textures \o <<"/">>) })

\* The lines match_animation_files logs during insert_match_files.
insert_match_log(file, animation_dir) ==
  [i \in 1..Len(log_names(file)) |->
     match_animation_files(log_names(file)[i], animation_dir).log]

\* The calls of match_animation_files during insert_match_files, as
\* recorded: the log name and what was returned and logged.
insert_match_calls(file, animation_dir) ==
  [i \in 1..Len(log_names(file)) |->
     [log_name |-> log_names(file)[i],
      files |-> match_animation_files(log_names(file)[i],
                                      animation_dir).files,
      log |-> match_animation_files(log_names(file)[i], animation_dir).log]]

\* The splice made twice on the same copy: every name added is there twice.
insert_match_files_Twice(file, animation_dir) ==
  LET written == match_files_written(log_names(file), animation_dir)
                   (+) textures_written(animation_dir)
  IN  [file EXCEPT !.added = @ (+) written (+) written,
                   !.size = @ + 2 * BagCardinality(written),
                   !.spliced = TRUE]

\* insert_match_files(archive, animation_dir): the archive is opened to
\* append and the files are written to it, in place; each file written
\* makes the archive larger.
insert_match_files(file, animation_dir) ==
  LET written == match_files_written(log_names(file), animation_dir)
                   (+) textures_written(animation_dir)
  IN  [file EXCEPT !.added = @ (+) written,
                   !.size = @ + BagCardinality(written),
                   !.spliced = TRUE]

\* ------------------------------------------------------------------- Init

Init ==
  /\ \E e \in Envs :
       /\ DISCORD_DEBUG = e.debug
       /\ DISCORD_TESTING = e.testing
       /\ ctx_guild = e.ctx_guild
       /\ env_guild = e.env_guild
  /\ caller = "none"
  /\ animations = "none"
  /\ team_animation = "None"
  /\ zip_openable = FALSE
  /\ archive = <<>>
  /\ pc = "idle"
  /\ idx = 0
  /\ exc = "none"
  /\ tmpdir = FALSE
  /\ tmpfiles = <<>>
  /\ animdir = FALSE
  /\ animfiles = {}
  /\ created = 0
  /\ cleanups = 0
  /\ animations_found = FALSE
  /\ completed_tlas = <<>>
  /\ tla = <<>>
  /\ channel = None
  /\ replies = <<>>
  /\ logs = <<>>
  /\ sent = <<>>
  /\ summaries = <<>>
  /\ steps = <<>>
  /\ anim_calls = <<>>
  /\ lookups = <<>>
  /\ team_lookups = <<>>
  /\ match_calls = <<>>

\* ------------------------------------------------------------ the commands

\* The values the animations argument of a command is given.
AnimationArgs == {"none", "team", "separate", "all"}

locals == <<animations_found, completed_tlas, tla, channel>>

outputs == <<replies, logs, sent, summaries, steps>>

\* The combined archive the pipeline is given: one that opens, with its
\* entries, or one that does not.
GiveArchive(max) ==
  \/ /\ zip_openable' = TRUE
     /\ archive' \in Archives(max)
  \/ /\ zip_openable' = FALSE
     /\ archive' = <<>>

\* logs_upload's team_animation as the commands call it: the call passes
\* ctx, the file, the name and event_name, so the parameter takes its default.
command_team_animation(arg) == "None"

\* The !logs command.
_logs_import ==
  /\ pc = "idle"
  /\ caller' = "logs"
  /\ \E arg \in AnimationArgs, attached \in BOOLEAN :
       /\ animations' = arg
       /\ IF arg \notin DOMAIN ANIMATION_OPTIONS
          THEN /\ replies' = Append(replies, Line("animations_parameter", <<>>))
               /\ pc' = "returned"
               /\ UNCHANGED <<team_animation, zip_openable, archive>>
          ELSE IF ~attached
          THEN /\ replies' = Append(replies, Line("attachment_required", <<>>))
               /\ pc' = "returned"
               /\ UNCHANGED <<team_animation, zip_openable, archive>>
          ELSE /\ team_animation' = command_team_animation(arg)
               /\ GiveArchive(MaxCommandEntries)
               /\ pc' = "enter"
               /\ UNCHANGED replies
  /\ UNCHANGED <<envVars, calls, fsVars, locals, idx, exc, logs, sent, summaries, steps>>

\* The !logs_url command.
_logs_download ==
  /\ pc = "idle"
  /\ caller' = "logs_url"
  /\ \E arg \in AnimationArgs, downloaded \in BOOLEAN :
       /\ animations' = arg
       /\ IF arg \notin DOMAIN ANIMATION_OPTIONS
          THEN /\ replies' = Append(replies, Line("animations_parameter", <<>>))
               /\ pc' = "returned"
               /\ UNCHANGED <<team_animation, zip_openable, archive>>
          ELSE IF ~downloaded
          THEN /\ replies' = Append(replies, Line("download_failed", <<>>))
               /\ pc' = "returned"
               /\ UNCHANGED <<team_animation, zip_openable, archive>>
          ELSE /\ team_animation' = command_team_animation(arg)
               /\ GiveArchive(MaxCommandEntries)
               /\ pc' = "enter"
               /\ UNCHANGED replies
  /\ UNCHANGED <<envVars, calls, fsVars, locals, idx, exc, logs, sent, summaries, steps>>

\* A call of logs_upload with team_animation given.
logs_upload ==
  /\ pc = "idle"
  /\ caller' = "logs_upload"
  /\ \E option \in DOMAIN ANIMATION_OPTIONS :
       /\ animations' = option
       /\ team_animation' = ANIMATION_OPTIONS[option]
  /\ GiveArchive(MaxEntries)
  /\ pc' = "enter"
  /\ UNCHANGED <<envVars, calls, fsVars, locals, idx, exc, outputs>>

\* ------------------------------------------------------------ logs_upload

\* The steps taken, with one more step of entry i.
Step(i, name) == [steps EXCEPT ![i] = Append(@, name)]

\* A break in place of the continue: the rest of the entries are left.
Continue_Break ==
  /\ idx' = Len(archive) + 1
  /\ pc' = "for"

\* The for loop's continue: on to the next entry.
Continue ==
  /\ idx' = idx + 1
  /\ pc' = "for"

\* An exception that leaves logs_upload past the temporary directory, as if
\* the directory were no context manager.
Raise_NoCleanup(e) ==
  /\ exc' = e
  /\ pc' = IF e = "BadZipFile" THEN "except" ELSE "raised"

\* An exception leaves the with blocks: the temporary directory's __exit__
\* runs before any handler.
Raise(e) ==
  /\ exc' = e
  /\ pc' = "exit"

\* with tempfile.TemporaryDirectory() as tmpdir_name: the directory is made.
EnterTmpdir ==
  /\ pc = "enter"
  /\ tmpdir' = TRUE
  /\ tmpfiles' = <<>>
  /\ animdir' = FALSE
  /\ animfiles' = {}
  /\ created' = created + 1
  /\ completed_tlas' = <<>>
  /\ animations_found' = FALSE
  /\ steps' = [i \in 1..Len(archive) |-> <<>>]
  /\ pc' = "open"
  /\ UNCHANGED <<envVars, calls, inputVars, cleanups, tla, channel, idx, exc,
                 replies, logs, sent, summaries>>

\* with ZipFile(file) as zipfile: BadZipFile when the file is no archive.
OpenZip ==
  /\ pc = "open"
  /\ IF zip_openable
     THEN /\ pc' = "animations"
          /\ UNCHANGED exc
     ELSE Raise("BadZipFile")
  /\ UNCHANGED <<envVars, calls, inputVars, fsVars, locals, idx, outputs>>

\* The bundle looked for in every mode.
animations_wanted_Always == TRUE

\* if team_animation is not None
animations_wanted == team_animation # "None"

\* if team_animation is not None: extract_animations, and the diagnostic
\* when there is no bundle.
ResolveAnimations ==
  /\ pc = "animations"
  /\ IF ~animations_wanted
     THEN /\ pc' = "for"
          /\ idx' = 1
          /\ UNCHANGED <<tmpfiles, animdir, animfiles, animations_found, exc,
                         replies, logs, anim_calls>>
     ELSE LET r == extract_animations(tmpfiles, team_animation = "True")
          IN  /\ tmpfiles' = r.files
              /\ animdir' = r.dir
              /\ animfiles' = r.dirfiles
              /\ anim_calls' =
                   Append(anim_calls,
                          [fully_extract |-> team_animation = "True",
                           found |-> r.found, raised |-> r.raised,
                           files |-> r.files, dir |-> r.dir,
                           dirfiles |-> r.dirfiles])
              /\ IF r.raised
                 THEN /\ Raise("BadZipFile")
                      /\ UNCHANGED <<animations_found, idx, replies, logs>>
                 ELSE /\ animations_found' = r.found
                      /\ pc' = "for"
                      /\ idx' = 1
                      /\ UNCHANGED exc
                      /\ IF r.found
                         THEN /\ UNCHANGED replies
                              /\ logs' = logs \o r.log
                         ELSE log_and_reply("animations_missing", <<>>)
  /\ UNCHANGED <<envVars, inputVars, tmpdir, created, cleanups,
                 completed_tlas, tla, channel, sent, summaries, steps,
                 lookups, team_lookups, match_calls>>

\* for archive_name in zipfile.namelist(): the entries are exhausted.
LoopExit ==
  /\ pc = "for"
  /\ idx > Len(archive)
  /\ pc' = "forward"
  /\ UNCHANGED <<envVars, calls, inputVars, fsVars, locals, idx, exc, outputs>>

\* if not pre_test_zipfile(archive_name, zip_name): continue
PreTest ==
  /\ pc = "for"
  /\ idx <= Len(archive)
  /\ steps' = Step(idx, "filter")
  /\ logs' = logs \o pre_test_log(archive[idx].name)
  /\ IF pre_test_zipfile(archive[idx].name)
     THEN /\ pc' = "extract"
          /\ UNCHANGED idx
     ELSE Continue
  /\ UNCHANGED <<envVars, calls, inputVars, fsVars, locals, exc, replies, sent, summaries>>

\* zipfile.extract(archive_name, path=tmpdir)
ExtractEntry ==
  /\ pc = "extract"
  /\ tmpfiles' = extract(tmpfiles, archive[idx])
  /\ steps' = Step(idx, "extract")
  /\ pc' = "validate"
  /\ UNCHANGED <<envVars, calls, inputVars, tmpdir, animdir, animfiles, created, cleanups,
                 locals, idx, exc, replies, logs, sent, summaries>>

\* Validate without the continue: the diagnostic, and on with the entry.
Validate_NoSkip ==
  /\ pc = "validate"
  /\ steps' = Step(idx, "validate")
  /\ IF tmpfiles[archive[idx].name].valid
     THEN UNCHANGED <<replies, logs>>
     ELSE log_and_reply("entry_not_valid_zip", archive[idx].name)
  /\ pc' = "splice"
  /\ UNCHANGED <<envVars, calls, inputVars, fsVars, locals, idx, exc, sent, summaries>>

\* if not is_zipfile(tmpdir / archive_name): the diagnostic, and continue
Validate ==
  /\ pc = "validate"
  /\ steps' = Step(idx, "validate")
  /\ IF tmpfiles[archive[idx].name].valid
     THEN /\ pc' = "splice"
          /\ UNCHANGED <<idx, replies, logs>>
     ELSE /\ log_and_reply("entry_not_valid_zip", archive[idx].name)
          /\ Continue
  /\ UNCHANGED <<envVars, calls, inputVars, fsVars, locals, exc, sent, summaries>>

\* if team_animation and animations_found
splice_wanted == team_animation = "True" /\ animations_found

\* insert_match_files(tmpdir / archive_name, tmpdir / 'animations'), when
\* wanted.
Splice ==
  /\ pc = "splice"
  /\ IF splice_wanted
     THEN /\ tmpfiles' =
               [tmpfiles EXCEPT ![archive[idx].name] =
                  insert_match_files(@, animfiles)]
          /\ logs' = logs \o insert_match_log(tmpfiles[archive[idx].name],
                                              animfiles)
          /\ match_calls' =
               match_calls \o insert_match_calls(tmpfiles[archive[idx].name],
                                                 animfiles)
          /\ steps' = Step(idx, "splice")
     ELSE UNCHANGED <<tmpfiles, logs, steps, match_calls>>
  /\ pc' = "resolve"
  /\ UNCHANGED <<envVars, inputVars, tmpdir, animdir, animfiles, created,
                 cleanups, locals, idx, exc, replies, sent, summaries,
                 anim_calls, lookups, team_lookups>>

\* A call of get_channel, as recorded: the name asked for and the outcome.
Lookup(channel_name, res) ==
  [name |-> channel_name, raised |-> res.raised, channel |-> res.channel,
   reply |-> res.reply]

\* tla, channel = await get_team_channel(ctx, archive_name, zip_name);
\* if not channel: continue
ResolveTeamChannel ==
  /\ pc = "resolve"
  /\ steps' = Step(idx, "resolve")
  /\ LET r == get_team_channel(archive[idx].name)
     IN  /\ team_lookups' =
              Append(team_lookups,
                     [idx |-> idx, name |-> archive[idx].name,
                      matched |-> r.matched, tla |-> r.tla,
                      raised |-> r.res.raised, channel |-> r.res.channel,
                      reply |-> r.res.reply])
         /\ lookups' =
              IF r.matched
              THEN Append(lookups, Lookup(TEAM_PREFIX \o r.tla, r.res))
              ELSE lookups
         /\ IF r.res.raised
            THEN /\ Raise("NoPrivateMessage")
                 /\ UNCHANGED <<tla, channel, idx, replies, logs>>
            ELSE /\ tla' = r.tla
                 /\ channel' = r.res.channel
                 /\ IF r.res.reply = ""
                    THEN UNCHANGED <<replies, logs>>
                    ELSE log_and_reply(r.res.reply, r.res.arg)
                 /\ UNCHANGED exc
                 /\ IF r.res.channel = None
                    THEN Continue
                    ELSE /\ pc' = "send"
                         /\ UNCHANGED idx
  /\ UNCHANGED <<envVars, inputVars, fsVars, animations_found,
                 completed_tlas, sent, summaries, anim_calls, match_calls>>

\* What the platform answered to a call of send_file: channel.send's
\* outcome, or "none" in test mode, where nothing is sent.
Response(file, fault) ==
  IF DISCORD_TESTING THEN "none" ELSE channel_send(file, fault)

\* A call of send_file, as recorded: the entry (0 for the bundle), which
\* attempt it is for that entry, the channel, the file as it was then, the
\* platform's answer and send_file's result.
Sending(i, attempt, to, file, fault) ==
  [idx |-> i, attempt |-> attempt, to |-> to, name |-> file.name,
   size |-> file.size, spliced |-> file.spliced, added |-> file.added,
   response |-> Response(file, fault), result |-> send_file(file, fault)]

\* What send_file logs and replies, by its result.
SendOutput(file, result) ==
  IF result = "True"
  THEN /\ logs' = Append(logs, [level |-> "debug", kind |-> "uploaded",
                                arg |-> file.name])
       /\ UNCHANGED replies
  ELSE IF result = "False"
  THEN log_and_reply("too_large", file.name)
  ELSE UNCHANGED <<replies, logs>>

\* if team_animation: the second attempt is made
retry_wanted == team_animation = "True"

\* The append made whatever send_file returned.
completed_after_Always(result) == Append(completed_tlas, tla)

\* completed_tlas after the first attempt: completed_tlas.append(tla) is
\* reached when send_file returned True, and stepped over by the continue
\* otherwise.
completed_after(result) ==
  IF result = "True" THEN Append(completed_tlas, tla) ELSE completed_tlas

\* if not await send_file(...): the first attempt; on True,
\* completed_tlas.append(tla).
SendFirst ==
  /\ pc = "send"
  /\ \E fault \in Faults :
       LET file == tmpfiles[archive[idx].name]
           result == send_file(file, fault)
       IN  /\ sent' = Append(sent, Sending(idx, 1, channel, file, fault))
           /\ steps' = Step(idx, "deliver")
           /\ SendOutput(file, result)
           /\ completed_tlas' = completed_after(result)
           /\ CASE result = "True" ->
                     /\ Continue
                     /\ UNCHANGED exc
                [] result = "False" ->
                     /\ IF retry_wanted
                        THEN /\ pc' = "reextract"
                             /\ UNCHANGED idx
                        ELSE Continue
                     /\ UNCHANGED exc
                [] OTHER ->
                     /\ Raise("HTTPException")
                     /\ UNCHANGED idx
  /\ UNCHANGED <<envVars, calls, inputVars, fsVars, animations_found, tla, channel,
                 summaries>>

\* The retry without the extraction: the modified archive is sent again.
ReExtract_Skip ==
  /\ pc = "reextract"
  /\ steps' = Step(idx, "reextract")
  /\ pc' = "resend"
  /\ UNCHANGED <<envVars, calls, inputVars, fsVars, locals, idx, exc, replies, logs,
                 sent, summaries>>

\* zipfile.extract(archive_name, path=tmpdir): the original archive, over the
\* modified one.
ReExtract ==
  /\ pc = "reextract"
  /\ tmpfiles' = extract(tmpfiles, archive[idx])
  /\ steps' = Step(idx, "reextract")
  /\ pc' = "resend"
  /\ UNCHANGED <<envVars, calls, inputVars, tmpdir, animdir, animfiles, created, cleanups,
                 locals, idx, exc, replies, logs, sent, summaries>>

\* if await send_file(...): the retry with the original archive, and the
\* line that no animations were served; then continue.
SendRetry ==
  /\ pc = "resend"
  /\ \E fault \in Faults :
       LET file == tmpfiles[archive[idx].name]
           result == send_file(file, fault)
       IN  /\ sent' = Append(sent, Sending(idx, 2, channel, file, fault))
           /\ steps' = Step(idx, "redeliver")
           /\ CASE result = "True" ->
                     /\ logs' = logs \o
                          << [level |-> "debug", kind |-> "uploaded",
                              arg |-> file.name],
                             [level |-> "error", kind |-> "only_logs",
                              arg |-> tla] >>
                     /\ replies' = Append(replies, Line("only_logs", tla))
                     /\ Continue
                     /\ UNCHANGED exc
                [] result = "False" ->
                     /\ SendOutput(file, result)
                     /\ Continue
                     /\ UNCHANGED exc
                [] OTHER ->
                     /\ Raise("HTTPException")
                     /\ UNCHANGED <<idx, replies, logs>>
  /\ UNCHANGED <<envVars, calls, inputVars, fsVars, locals, summaries>>

\* The bundle forwarded whenever one was found, whatever the mode.
forward_wanted_AnyMode == animations_found

\* if team_animation is False and animations_found
forward_wanted == team_animation = "False" /\ animations_found

\* After the loop: animations.zip to the common channel, when wanted.
ForwardAnimations ==
  /\ pc = "forward"
  /\ IF ~forward_wanted
     THEN /\ pc' = "summary"
          /\ UNCHANGED <<exc, replies, logs, sent, lookups>>
     ELSE LET r == get_channel(COMMON_CHANNEL)
              file == tmpfiles[AnimationsZip]
          IN  /\ lookups' = Append(lookups, Lookup(COMMON_CHANNEL, r))
              /\ IF r.raised
                  THEN /\ Raise("NoPrivateMessage")
                       /\ UNCHANGED <<replies, logs, sent>>
                  ELSE IF r.channel = None
                  THEN /\ log_and_reply(r.reply, r.arg)
                       /\ pc' = "summary"
                       /\ UNCHANGED <<exc, sent>>
                  ELSE \E fault \in Faults :
                         LET result == send_file(file, fault)
                         IN  /\ sent' = Append(sent, Sending(0, 1, r.channel, file, fault))
                             /\ SendOutput(file, result)
                             /\ IF result = "raise"
                                THEN Raise("HTTPException")
                                ELSE /\ pc' = "summary"
                                     /\ UNCHANGED exc
  /\ UNCHANGED <<envVars, inputVars, fsVars, locals, idx, summaries, steps,
                 anim_calls, team_lookups, match_calls>>

\* The summary left out when no team was completed.
Summary_UnlessEmpty ==
  /\ pc = "summary"
  /\ IF completed_tlas = <<>>
     THEN UNCHANGED <<summaries, replies>>
     ELSE /\ summaries' = Append(summaries, [n |-> Len(completed_tlas),
                                             codes |-> completed_tlas])
          /\ replies' = Append(replies, Line("summary", <<>>))
  /\ pc' = "exit"
  /\ UNCHANGED <<envVars, calls, inputVars, fsVars, locals, idx, exc, logs, sent, steps>>

\* await ctx.reply("Successfully uploaded logs to N teams: ...")
Summary ==
  /\ pc = "summary"
  /\ summaries' = Append(summaries, [n |-> Len(completed_tlas),
                                     codes |-> completed_tlas])
  /\ replies' = Append(replies, Line("summary", <<>>))
  /\ pc' = "exit"
  /\ UNCHANGED <<envVars, calls, inputVars, fsVars, locals, idx, exc, logs, sent, steps>>

\* logs_upload without its except clause: BadZipFile leaves it too.
after_exit_NoHandler ==
  IF exc = "none" THEN "returned" ELSE "raised"

\* Where control goes once the temporary directory is removed: to the
\* handler of BadZipFile, out of logs_upload with the exception, or back to
\* the caller.
after_exit ==
  CASE exc = "BadZipFile" -> "except"
    [] exc = "none"       -> "returned"
    [] OTHER              -> "raised"

\* TemporaryDirectory.__exit__: the directory and all in it are removed, on
\* the normal path and on an exception alike.
ExitTmpdir ==
  /\ pc = "exit"
  /\ tmpdir' = FALSE
  /\ tmpfiles' = <<>>
  /\ animdir' = FALSE
  /\ animfiles' = {}
  /\ cleanups' = cleanups + 1
  /\ pc' = after_exit
  /\ UNCHANGED <<envVars, calls, inputVars, created, locals, idx, exc, outputs>>

\* except BadZipFile: the diagnostic that zip_name is not a valid ZIP file.
HandleBadZipFile ==
  /\ pc = "except"
  /\ log_and_reply("archive_not_valid_zip", <<>>)
  /\ exc' = "none"
  /\ pc' = "returned"
  /\ UNCHANGED <<envVars, calls, inputVars, fsVars, locals, idx, sent, summaries, steps>>

\* ------------------------------------------------------------ specification

Next ==
  \/ _logs_import
  \/ _logs_download
  \/ logs_upload
  \/ EnterTmpdir
  \/ OpenZip
  \/ ResolveAnimations
  \/ LoopExit
  \/ PreTest
  \/ ExtractEntry
  \/ Validate
  \/ Splice
  \/ ResolveTeamChannel
  \/ SendFirst
  \/ ReExtract
  \/ SendRetry
  \/ ForwardAnimations
  \/ Summary
  \/ ExitTmpdir
  \/ HandleBadZipFile

Spec == Init /\ [][Next]_vars

\* ------------------------------------------------------------------ claims

\* logs_upload has ended: it returned, or an exception left it.
Final == pc \in {"returned", "raised"}

\* logs_upload was entered (a command may return before it calls it).
Entered == created = 1

\* The entries for which some call of send_file returned True.
Delivered ==
  { i \in 1..Len(archive) :
      \E k \in 1..Len(sent) : sent[k].idx = i /\ sent[k].result = "True" }

\* The team code of entry i.
CodeOf(i) == tla_group(archive[i].name)

\* An entry with nothing against it: the filter accepts its name, it is a
\* ZIP file, its team's channel is found and is a text channel, and it is
\* not over the size limit.
Deliverable(i) ==
  /\ pre_test_zipfile(archive[i].name)
  /\ archive[i].valid
  /\ ~get_team_channel(archive[i].name).res.raised
  /\ get_team_channel(archive[i].name).res.channel # None
  /\ archive[i].size <= SIZE_LIMIT

\* Whether a step of entry i was taken.
Taken(i, name) ==
  \E j \in 1..Len(steps[i]) : steps[i][j] = name

\* The steps of an entry that is spliced, delivered and sent again, in the
\* order of the code, and those of an entry that is not spliced.
SplicedSteps ==
  <<"filter", "extract", "validate", "splice", "resolve", "deliver",
    "reextract", "redeliver">>

PlainSteps ==
  <<"filter", "extract", "validate", "resolve", "deliver",
    "reextract", "redeliver">>

IsPrefix(s, t) ==
  /\ Len(s) <= Len(t)
  /\ s = SubSeq(t, 1, Len(s))

\* C1: on every exit path of logs_upload (it returns after the summary, it
\* returns after the BadZipFile handler, an exception leaves it) the
\* temporary directory made at the start is removed exactly once, before the
\* handler runs and before control is back with the caller; it exists
\* exactly from its creation to that removal.
C1_WorkspaceCleanedOnce ==
  /\ created <= 1
  /\ cleanups <= created
  /\ tmpdir <=> (created = 1 /\ cleanups = 0)
  /\ Entered /\ (Final \/ pc = "except") =>
       /\ ~tmpdir
       /\ cleanups = 1
       /\ tmpfiles = <<>>

\* An exception left logs_upload after files were extracted and sent, and
\* the directory is gone.
C1_Witness ==
  /\ pc = "raised"
  /\ exc = "HTTPException"
  /\ \E i \in DOMAIN steps : Taken(i, "deliver")
  /\ cleanups = 1
  /\ ~tmpdir

\* C2 (as claimed): every entry whose delivery succeeded, at the first
\* attempt or at the retry, is counted and listed in the final summary.
C2_DeliveredTeamsCompleted ==
  \A k \in 1..Len(summaries) :
    /\ summaries[k].n = Cardinality(Delivered)
    /\ \A i \in Delivered :
         \E j \in 1..Len(summaries[k].codes) : summaries[k].codes[j] = CodeOf(i)

\* C3 (as claimed): a command that runs the pipeline runs it in the mode its
\* animations argument names.
C3_AnimationsSelectsMode ==
  caller \in {"logs", "logs_url"} /\ Entered =>
    team_animation = ANIMATION_OPTIONS[animations]

\* The causes that end a run with an exception: the combined archive or the
\* bundle to expand cannot be opened, there is no guild to look in, or the
\* platform answered a send with an error that is no size failure.
FatalCause ==
  CASE exc = "BadZipFile" ->
         \/ ~zip_openable
         \/ /\ team_animation = "True"
            /\ animation_files # {}
            /\ archive[Min(animation_files)].corrupt
    [] exc = "NoPrivateMessage" -> ~DISCORD_DEBUG /\ LookupGuild = "none"
    [] exc = "HTTPException" ->
         Len(sent) > 0 /\ sent[Len(sent)].response = "500"
    [] OTHER -> FALSE

\* C4: a failure of an entry that is recoverable does not stop the loop.
\* Every entry before the current one was taken up by the loop, and was
\* delivered if it has nothing against it, whatever the entries before it
\* were; the loop is left only with all entries taken up; and a run ends
\* with an exception only for a fatal cause.
C4_RecoverableFailuresSkip ==
  /\ \A i \in DOMAIN steps :
       i < idx =>
         /\ Taken(i, "filter")
         /\ Deliverable(i) => i \in Delivered
  /\ pc \in {"forward", "summary"} \/ summaries # <<>> =>
       idx = Len(archive) + 1
  /\ exc # "none" => FatalCause

\* A run to its summary in which an entry the filter accepted failed (it is
\* no ZIP file, or has no code, or no text channel, or is too large) and a
\* later entry was delivered.
C4_Witness ==
  /\ Len(summaries) = 1
  /\ \E i, j \in 1..Len(archive) :
       /\ i < j
       /\ pre_test_zipfile(archive[i].name)
       /\ ~Deliverable(i)
       /\ i \notin Delivered
       /\ j \in Delivered

\* The successful first attempts for team entries, in the order made.
FirstOK ==
  SelectSeq(sent, LAMBDA s : s.idx > 0 /\ s.attempt = 1 /\ s.result = "True")

\* C5: the summary counts the codes it lists, and lists only entries for
\* which send_file returned True, in the order the entries were processed:
\* its codes are those of the entries whose first attempt succeeded, in the
\* order of the attempts, which is the order of the archive.
C5_SummaryListsDelivered ==
  /\ \A k \in 1..Len(summaries) :
       /\ summaries[k].n = Len(summaries[k].codes)
       /\ Len(summaries[k].codes) = Len(FirstOK)
       /\ \A j \in 1..Len(FirstOK) :
            summaries[k].codes[j] = CodeOf(FirstOK[j].idx)
  /\ \A j \in 1..(Len(FirstOK) - 1) : FirstOK[j].idx < FirstOK[j + 1].idx

\* A summary that lists the one team delivered, in a run where the send for
\* another entry failed.
C5_Witness ==
  /\ Len(summaries) = 1
  /\ summaries[1].n = 1
  /\ \E k \in 1..Len(sent) : sent[k].result = "False"
  /\ \E k \in 1..Len(sent) : sent[k].result = "True"

\* C6 (as claimed): a second attempt follows only a failed attempt with a
\* spliced archive.
C6_RetryOnlyWhenSpliced ==
  \A k \in 1..Len(sent) :
    sent[k].attempt = 2 => k > 1 /\ sent[k - 1].spliced

\* C7: the retry sends the original entry, extracted again over the copy
\* that failed: the file sent is not spliced and has the entry's size; it
\* follows a failed first attempt for the same entry, nothing is spliced
\* after the extraction, no entry is sent more than twice, and after the
\* retry, failed or not, the loop is on to the next entry.
C7_RetryCleanAndSingle ==
  /\ \A k \in 1..Len(sent) :
       sent[k].attempt = 2 =>
         /\ ~sent[k].spliced
         /\ sent[k].size = archive[sent[k].idx].size
         /\ k > 1
         /\ sent[k - 1].idx = sent[k].idx
         /\ sent[k - 1].attempt = 1
         /\ sent[k - 1].result = "False"
         /\ sent[k].result # "raise" => idx > sent[k].idx
  /\ \A k \in 1..Len(sent) :
       sent[k].attempt = 1 /\ k > 1 => sent[k - 1].idx # sent[k].idx
  /\ \A i \in DOMAIN steps :
       \A j \in 1..Len(steps[i]) :
         steps[i][j] = "splice" =>
           \A h \in 1..Len(steps[i]) :
             /\ steps[i][h] = "splice" => h = j
             /\ steps[i][h] = "reextract" => j < h

\* A retry that delivered the original archive after the spliced one failed.
C7_Witness ==
  \E k \in 2..Len(sent) :
    /\ sent[k].attempt = 2
    /\ sent[k].result = "True"
    /\ sent[k - 1].spliced

\* C8: when the combined archive cannot be opened, nothing is extracted,
\* nothing is sent, no summary is sent, and logs_upload returns, without an
\* exception, after the one diagnostic that the archive is not a valid ZIP
\* file.
C8_OuterArchiveAborts ==
  Entered /\ ~zip_openable =>
    /\ steps = <<>>
    /\ sent = <<>>
    /\ summaries = <<>>
    /\ tmpfiles = <<>>
    /\ pc # "raised"
    /\ IF pc = "returned"
       THEN replies = <<Line("archive_not_valid_zip", <<>>)>> /\ exc = "none"
       ELSE replies = <<>>

\* logs_upload has returned from an archive that does not open.
C8_Witness ==
  /\ Entered
  /\ ~zip_openable
  /\ pc = "returned"
  /\ cleanups = 1

\* C9: an answer of the platform that is an error and no size failure makes
\* send_file raise, not return False: it is the last call of send_file of
\* the run, no summary is sent, the exception leaves logs_upload, and it
\* leaves it with the temporary directory removed.
C9_TransportErrorPropagates ==
  \A k \in 1..Len(sent) :
    sent[k].response = "500" =>
      /\ sent[k].result = "raise"
      /\ k = Len(sent)
      /\ summaries = <<>>
      /\ exc = "HTTPException"
      /\ pc \in {"exit", "raised"}
      /\ pc = "raised" => ~tmpdir /\ cleanups = 1

\* The send for the first entry met an error, and the second entry, with
\* nothing against it, was not taken up.
C9_Witness ==
  /\ pc = "raised"
  /\ Len(archive) = 2
  /\ Deliverable(2)
  /\ steps[2] = <<>>
  /\ \E k \in 1..Len(sent) : sent[k].idx = 1 /\ sent[k].response = "500"

\* C10: the steps of an entry are taken in the order filter, extract,
\* validate, splice, resolve, deliver, each at most once; an entry the
\* filter rejects is not extracted; an entry that is no ZIP file is neither
\* spliced nor sent; and every file sent is of an entry validated before.
C10_StepsInOrder ==
  \A i \in DOMAIN steps :
    /\ IsPrefix(steps[i], SplicedSteps) \/ IsPrefix(steps[i], PlainSteps)
    /\ ~pre_test_zipfile(archive[i].name) => ~Taken(i, "extract")
    /\ ~archive[i].valid =>
         /\ ~Taken(i, "splice")
         /\ ~Taken(i, "resolve")
         /\ ~Taken(i, "deliver")
    /\ \A k \in 1..Len(sent) :
         sent[k].idx = i => archive[i].valid /\ Taken(i, "validate")

\* An entry that went through all six steps.
C10_Witness ==
  \E i \in DOMAIN steps :
    SubSeq(SplicedSteps, 1, 6) = steps[i]

\* ---------------------------------------------------------------- C11

\* C11: in one run extract_animations is called at most once, and never in
\* mode 'none', where no bundle is in the temporary directory either; the
\* call expands the bundle exactly in mode 'team', and tmpdir/animations
\* exists only as made by that call: a bundle left packed is never expanded
\* later in the run.
C11_BundleExtractedAtMostOnce ==
  /\ Len(anim_calls) <= 1
  /\ team_animation = "None" =>
       /\ anim_calls = <<>>
       /\ AnimationsZip \notin DOMAIN tmpfiles
       /\ ~animdir
  /\ AnimationsZip \in DOMAIN tmpfiles => Len(anim_calls) = 1
  /\ \A k \in DOMAIN anim_calls :
       /\ anim_calls[k].fully_extract <=> team_animation = "True"
       /\ anim_calls[k].dir => anim_calls[k].fully_extract
  /\ animdir \/ animfiles # {} =>
       /\ team_animation = "True"
       /\ Len(anim_calls) = 1
       /\ anim_calls[1].dir
       /\ animfiles = anim_calls[1].dirfiles

\* A run in mode 'team' ended after the one call extracted and expanded the
\* first of the two bundles of the combined archive.
C11_Witness ==
  /\ pc = "returned"
  /\ team_animation = "True"
  /\ Cardinality(animation_files) = 2
  /\ Len(anim_calls) = 1
  /\ anim_calls[1].found
  /\ anim_calls[1].dir

\* ---------------------------------------------------------------- C12

\* How many of the lines are of a kind.
CountKind(lines, kind) == Len(SelectSeq(lines, LAMBDA l : l.kind = kind))

\* C12: in mode 'team' or 'separate', when the combined archive holds no
\* bundle, 'animations Zip file is missing' is reported exactly once and the
\* run goes on: every entry passed that has nothing against it was
\* delivered, no entry was spliced and no spliced file was sent, nothing
\* was forwarded to the common channel, and the run, unless an exception of
\* a fatal cause ended it, ends having sent the one summary.
C12_MissingBundleRecoverable ==
  /\ animations_wanted
  /\ zip_openable
  /\ animation_files = {}
  /\ pc \notin {"idle", "enter", "open", "animations"}
  => /\ CountKind(replies, "animations_missing") = 1
     /\ Len(anim_calls) = 1 /\ ~anim_calls[1].found
     /\ ~animations_found
     /\ \A i \in DOMAIN steps :
          /\ ~Taken(i, "splice")
          /\ i < idx /\ Deliverable(i) => i \in Delivered
     /\ \A k \in DOMAIN sent : sent[k].idx # 0 /\ ~sent[k].spliced
     /\ \A k \in DOMAIN lookups : lookups[k].name # COMMON_CHANNEL
     /\ pc = "returned" => exc = "none" /\ Len(summaries) = 1
     /\ pc = "raised" => exc \in {"NoPrivateMessage", "HTTPException"}
                         /\ FatalCause

\* A run in mode 'separate' on a combined archive of two team entries and no
\* bundle ended with both delivered and listed by the summary.
C12_Witness ==
  /\ pc = "returned"
  /\ team_animation = "False"
  /\ animation_files = {}
  /\ Len(archive) = 2
  /\ Delivered = {1, 2}
  /\ CountKind(replies, "animations_missing") = 1
  /\ Len(summaries) = 1
  /\ summaries[1].n = 2

\* ---------------------------------------------------------------- C13

\* The calls of send_file for the bundle.
BundleSends == { k \in DOMAIN sent : sent[k].idx = 0 }

\* C13: the bundle is sent at most once, and only in mode 'separate' with a
\* bundle found: as animations.zip, packed as extracted (never expanded,
\* nothing added), to the common channel (the invoking channel in debug
\* mode), after the loop has taken up every entry and made its last send,
\* and before the summary: while the forwarding is still to come no summary
\* was sent, and a summary is sent only past it. In mode 'separate' no entry
\* is spliced. In the other modes the common channel is not even looked up.
C13_BundleForwardedAfterLoop ==
  /\ Cardinality(BundleSends) <= 1
  /\ \A k \in BundleSends :
       /\ team_animation = "False"
       /\ Len(anim_calls) = 1 /\ anim_calls[1].found /\ ~anim_calls[1].dir
       /\ k = Len(sent)
       /\ idx = Len(archive) + 1
       /\ \A i \in DOMAIN steps : Taken(i, "filter")
       /\ pc \in {"summary", "exit", "returned", "raised"}
       /\ sent[k].name = AnimationsZip
       /\ ~sent[k].spliced
       /\ sent[k].size = archive[Min(animation_files)].size
       /\ sent[k].to = IF DISCORD_DEBUG THEN CtxChannel ELSE COMMON_CHANNEL
  /\ pc = "forward" => summaries = <<>> /\ BundleSends = {}
  /\ summaries # <<>> => pc \in {"exit", "returned"}
  /\ team_animation = "False" =>
       /\ \A i \in DOMAIN steps : ~Taken(i, "splice")
       /\ \A k \in DOMAIN sent : ~sent[k].spliced
  /\ \A k \in DOMAIN lookups :
       lookups[k].name = COMMON_CHANNEL =>
         team_animation = "False" /\ animation_files # {}

\* A run in mode 'separate' ended with its summary after a team entry was
\* delivered as extracted and then the bundle was delivered to the common
\* channel.
C13_Witness ==
  /\ pc = "returned"
  /\ team_animation = "False"
  /\ ~DISCORD_DEBUG
  /\ Len(sent) = 2
  /\ sent[1].idx > 0 /\ sent[1].result = "True"
  /\ sent[2].idx = 0 /\ sent[2].result = "True"
  /\ sent[2].to = COMMON_CHANNEL
  /\ Len(summaries) = 1

\* ---------------------------------------------------------------- C14

\* How many calls of send_file gave a result.
CountResult(result) == Len(SelectSeq(sent, LAMBDA s : s.result = result))

\* C14: every call of send_file returns False exactly on a size failure and
\* True exactly when nothing failed (it returns nothing when it raises the
\* transport error again). In normal mode the size failure is the platform's
\* answer 413; in test mode channel.send is not called, a file of more than
\* 8,000,000 bytes is the size failure and a file of up to that is not.
\* Each False comes with one too-large diagnostic, and there is no other.
C14_SendFileResult ==
  /\ \A k \in DOMAIN sent :
       IF DISCORD_TESTING
       THEN /\ sent[k].response = "none"
            /\ sent[k].size > 8000000 => sent[k].result = "False"
            /\ sent[k].size <= 8000000 => sent[k].result = "True"
       ELSE /\ sent[k].response \in {"ok", "413", "500"}
            /\ sent[k].result = "False" <=> sent[k].response = "413"
            /\ sent[k].result = "True" <=> sent[k].response = "ok"
            /\ sent[k].result = "raise" <=> sent[k].response = "500"
  /\ CountKind(replies, "too_large") = CountResult("False")

\* A run in test mode in which a file of exactly 8,000,000 bytes was taken
\* for sent and a file of one byte more was refused with the diagnostic.
C14_Witness ==
  /\ DISCORD_TESTING
  /\ \E k, j \in DOMAIN sent :
       /\ sent[k].size = 8000000 /\ sent[k].result = "True"
       /\ sent[j].size = 8000001 /\ sent[j].result = "False"
  /\ CountKind(replies, "too_large") = 1

\* ---------------------------------------------------------------- C15

\* Two names that differ in the case of their letters at most.
SameIgnoringCase(a, b) == lower(a) = lower(b)

\* The channels of the command's guild that a name asked for matches.
Matching(channel_name) ==
  { c \in GuildChannels : SameIgnoringCase(c.name, channel_name) }

\* C15: with neither override, every call of get_channel has one of four
\* outcomes. With no guild it raises NoPrivateMessage, which ends the run.
\* With a guild it raises nothing and: a name no channel matches gives None
\* and the 'not found' diagnostic; a name a channel that is no text channel
\* matches gives None and the 'not a text channel' diagnostic; a name a text
\* channel matches, whatever the case of the letters asked for, gives that
\* channel and no diagnostic. No other diagnostic of these two kinds is
\* replied.
C15_GetChannelOutcomes ==
  ~DISCORD_DEBUG /\ ~DISCORD_TESTING =>
    /\ \A k \in DOMAIN lookups :
         IF ~ctx_guild
         THEN /\ lookups[k].raised
              /\ lookups[k].channel = None
              /\ lookups[k].reply = ""
              /\ k = Len(lookups)
              /\ exc = "NoPrivateMessage"
         ELSE /\ ~lookups[k].raised
              /\ Matching(lookups[k].name) = {} =>
                   /\ lookups[k].channel = None
                   /\ lookups[k].reply = "channel_not_found"
              /\ \A c \in Matching(lookups[k].name) :
                   IF c.type = "text"
                   THEN /\ lookups[k].channel = c.name
                        /\ lookups[k].reply = ""
                   ELSE /\ lookups[k].channel = None
                        /\ lookups[k].reply = "not_a_text_channel"
    /\ CountKind(replies, "channel_not_found") =
         Len(SelectSeq(lookups, LAMBDA l : l.reply = "channel_not_found"))
    /\ CountKind(replies, "not_a_text_channel") =
         Len(SelectSeq(lookups, LAMBDA l : l.reply = "not_a_text_channel"))

\* With neither override and a guild, the text channel team-a was returned
\* for the name team-A, and then team-V, which names a voice channel in
\* other case, gave None and 'not a text channel'.
C15_Witness ==
  /\ ~DISCORD_DEBUG /\ ~DISCORD_TESTING /\ ctx_guild
  /\ Len(lookups) = 2
  /\ lookups[1].name # lower(lookups[1].name)
  /\ lookups[1].channel = lower(lookups[1].name)
  /\ lookups[1].reply = ""
  /\ lookups[2].channel = None
  /\ lookups[2].reply = "not_a_text_channel"
  /\ CountKind(replies, "not_a_text_channel") = 1

\* ---------------------------------------------------------------- C16

\* A name that ends with '.zip' and starts with 'team-', letters of either
\* case taken alike.
TeamZipName(n) ==
  /\ Len(n) >= 5
  /\ lower(SubSeq(n, 1, 5)) = <<"t","e","a","m","-">>
  /\ lower(SubSeq(n, Len(n) - 3, Len(n))) = <<".","z","i","p">>

\* The entries the filter was given and that are no team ZIP names.
Rejected ==
  { i \in DOMAIN steps : Taken(i, "filter") /\ ~TeamZipName(archive[i].name) }

\* The debug lines of pre_test_zipfile.
PreTestLines ==
  SelectSeq(logs, LAMBDA l : l.kind \in {"not_a_zip", "no_team_prefix"})

\* C16: an entry the filter was given goes on to extraction exactly when its
\* name is a team ZIP name, in either case of letters. An entry that is none
\* has the filter as its only step, is never sent and is named in no reply;
\* there is one debug line of the filter for each such entry, naming it,
\* and none for the others; the filter replies nothing to the user.
C16_FilterAcceptsTeamZips ==
  /\ \A i \in DOMAIN steps :
       Taken(i, "filter") =>
         IF TeamZipName(archive[i].name)
         THEN Taken(i, "extract") \/ (pc = "extract" /\ idx = i)
         ELSE /\ steps[i] = <<"filter">>
              /\ \A k \in DOMAIN sent : sent[k].idx # i
  /\ Len(PreTestLines) = Cardinality(Rejected)
  /\ \A k \in DOMAIN PreTestLines :
       /\ PreTestLines[k].level = "debug"
       /\ ~TeamZipName(PreTestLines[k].arg)
       /\ \E i \in Rejected : archive[i].name = PreTestLines[k].arg
  /\ \A k \in DOMAIN replies :
       /\ replies[k].kind \notin {"not_a_zip", "no_team_prefix"}
       /\ replies[k].kind \in {"entry_not_valid_zip", "failed_to_extract_tla"}
            => TeamZipName(replies[k].arg)

\* A run ended in which the entry TEAM-A.ZIP, in upper case, was extracted
\* and an entry that is no team ZIP name was passed over with one debug
\* line.
C16_Witness ==
  /\ pc = "returned"
  /\ Len(archive) = 2
  /\ archive[1].name # lower(archive[1].name)
  /\ Taken(1, "extract")
  /\ Rejected = {2}
  /\ Len(PreTestLines) = 1

\* ---------------------------------------------------------------- C17

\* A name that is 'team-', a token, and then '-' or '.'.
WellFormed(n) ==
  /\ Len(n) > 5
  /\ SubSeq(n, 1, 5) = <<"t","e","a","m","-">>
  /\ \E j \in 6..Len(n) : n[j] \in {"-", "."}

\* The calls of get_team_channel that extracted a code.
MatchedLookups == SelectSeq(team_lookups, LAMBDA t : t.matched)

\* C17: every call of get_team_channel extracts a code exactly from a
\* well-formed name. The code is the token: the name is 'team-', the code,
\* a '-' or '.', and the code holds neither, in the letters of the name as
\* they are. For each code one call of get_channel is made, asking for
\* 'team-' and the code, and its outcome is the call's; with neither
\* override and a guild a text channel of that name in any case of letters
\* is returned; and the code is returned whether or not a channel is. For
\* another name the call raises nothing, replies 'Failed to extract a TLA'
\* once and returns the empty code and no channel.
C17_TeamCodeExtracted ==
  /\ \A k \in DOMAIN team_lookups :
       LET t == team_lookups[k]
       IN  /\ t.matched <=> WellFormed(t.name)
           /\ t.matched =>
                /\ SubSeq(t.name, 1, 5 + Len(t.tla)) =
                     <<"t","e","a","m","-">> \o t.tla
                /\ t.name[6 + Len(t.tla)] \in {"-", "."}
                /\ \A j \in DOMAIN t.tla : t.tla[j] \notin {"-", "."}
                /\ ~DISCORD_DEBUG /\ ~DISCORD_TESTING /\ ctx_guild =>
                     \A c \in Matching(<<"t","e","a","m","-">> \o t.tla) :
                       c.type = "text" => t.channel = c.name
           /\ ~t.matched =>
                /\ t.tla = <<>>
                /\ t.channel = None
                /\ ~t.raised
                /\ t.reply = "failed_to_extract_tla"
  /\ \A k \in DOMAIN MatchedLookups :
       /\ k <= Len(lookups)
       /\ lookups[k].name = <<"t","e","a","m","-">> \o MatchedLookups[k].tla
       /\ lookups[k].raised = MatchedLookups[k].raised
       /\ lookups[k].channel = MatchedLookups[k].channel
       /\ lookups[k].reply = MatchedLookups[k].reply
  /\ team_lookups # <<>> /\ ~team_lookups[Len(team_lookups)].raised =>
       /\ tla = team_lookups[Len(team_lookups)].tla
       /\ channel = team_lookups[Len(team_lookups)].channel
  /\ CountKind(replies, "failed_to_extract_tla") =
       Len(team_lookups) - Len(MatchedLookups)

\* With neither override and a guild: team-B-1.zip gave the code B, before
\* its first '-', and the channel team-b; then team-M.zip gave the code M
\* though no channel team-m exists.
C17_Witness ==
  /\ ~DISCORD_DEBUG /\ ~DISCORD_TESTING /\ ctx_guild
  /\ Len(team_lookups) = 2
  /\ team_lookups[1].tla = <<"B">>
  /\ Len(team_lookups[1].name) > 10
  /\ team_lookups[1].channel = <<"t","e","a","m","-","b">>
  /\ team_lookups[2].tla = <<"M">>
  /\ team_lookups[2].channel = None
  /\ tla = <<"M">>

\* ---------------------------------------------------------------- C18

\* A name that starts with 'animations' and ends with '.zip'.
BundleName(n) == startswith(n, AnimationsPrefix) /\ endswith(n, DotZip)

\* The entries of the combined archive with such a name.
Bundles == { i \in 1..Len(archive) : BundleName(archive[i].name) }

\* The first of them in archive order.
FirstBundle == CHOOSE i \in Bundles : \A j \in Bundles : i <= j

\* C18: every call of extract_animations, made on the empty temporary
\* directory, ends in one of these ways. With no bundle in the combined
\* archive it returns False and the directory is still empty. With one it
\* returns True and the directory holds exactly animations.zip, which is
\* the first bundle in archive order as it was in the archive, and besides
\* it nothing when fully_extract is false, or the directory animations with
\* exactly the files of that bundle when fully_extract is true.
C18_ExtractAnimations ==
  \A k \in DOMAIN anim_calls :
    LET c == anim_calls[k]
    IN  IF Bundles = {}
        THEN /\ ~c.found /\ ~c.raised
             /\ DOMAIN c.files = {}
             /\ ~c.dir /\ c.dirfiles = {}
        ELSE /\ c.found /\ ~c.raised
             /\ DOMAIN c.files = {AnimationsZip}
             /\ c.files[AnimationsZip].size = archive[FirstBundle].size
             /\ c.files[AnimationsZip].files = archive[FirstBundle].files
             /\ ~c.files[AnimationsZip].spliced
             /\ c.dir = c.fully_extract
             /\ c.dirfiles =
                  IF c.fully_extract
                  THEN { archive[FirstBundle].files[j] :
                           j \in DOMAIN archive[FirstBundle].files }
                  ELSE {}

\* ---------------------------------------------------------------- C19

\* Where a match token stands in a log name: 'match-' with a digit after it.
TokenAt(log_name, i) ==
  /\ i + 6 <= Len(log_name)
  /\ SubSeq(log_name, i, i + 5) = <<"m","a","t","c","h","-">>
  /\ log_name[i + 6] \in Digits

\* The match number of a log name: the digits of its first match token, all
\* of them. No number when the name has no such token.
MatchNumbers(log_name) ==
  UNION { { SubSeq(log_name, i + 6, j) :
              j \in { h \in (i + 6)..Len(log_name) :
                        /\ \A g \in (i + 6)..h : log_name[g] \in Digits
                        /\ h < Len(log_name) =>
                             log_name[h + 1] \notin Digits } } :
          i \in { h \in 1..Len(log_name) :
                    /\ TokenAt(log_name, h)
                    /\ \A g \in 1..(h - 1) : ~TokenAt(log_name, g) } }

\* The files of a directory named match-<n>.<ext>, the extension not mp4.
Assets(dir, n) ==
  { f \in dir :
      LET stem == <<"m","a","t","c","h","-">> \o n \o <<".">>
      IN  /\ Len(f) > Len(stem)
          /\ SubSeq(f, 1, Len(stem)) = stem
          /\ SubSeq(f, Len(stem) + 1, Len(f)) # <<"m","p","4">> }

\* The directory of the expanded bundle, as the one call of
\* extract_animations made it.
ExpandedBundle == anim_calls[1].dirfiles

\* C19: every call of match_animation_files, which are made on the expanded
\* bundle, returns exactly the files of that directory that are named
\* match-<n>.<ext>, n the match number of the log name and ext not mp4, so
\* no file of another match number and no video. For a log name with no
\* match number it returns nothing and logs the one warning 'Invalid match
\* name'; for a log name with a number it logs no warning, and returns
\* nothing when the directory has no such file. The warnings logged are
\* those of the calls.
C19_MatchAnimationFiles ==
  /\ match_calls # <<>> => Len(anim_calls) = 1 /\ anim_calls[1].dir
  /\ \A k \in DOMAIN match_calls :
       LET m == match_calls[k]
       IN  IF MatchNumbers(m.log_name) = {}
           THEN /\ m.files = {}
                /\ m.log.level = "warning"
                /\ m.log.kind = "invalid_match_name"
                /\ m.log.arg = m.log_name
           ELSE /\ m.log.level = "debug"
                /\ \A n \in MatchNumbers(m.log_name) :
                     m.files = Assets(ExpandedBundle, n)
  /\ CountKind(logs, "invalid_match_name") =
       Len(SelectSeq(match_calls, LAMBDA m : MatchNumbers(m.log_name) = {}))
  /\ CountKind(logs, "invalid_match_name") + CountKind(logs, "fetching_animation_files") =
       Len(match_calls)

\* Calls were made for the log names match-3.txt and match-4.txt on a
\* directory that holds match-3.png, match-3.mp4, match-4.mp4 and
\* match-12.png: the first returned match-3.png alone, the second nothing,
\* and no warning was logged.
C19_Witness ==
  /\ Len(match_calls) = 2
  /\ match_calls[1].log_name = MatchPrefix \o <<"3">> \o DotTxt
  /\ match_calls[2].log_name = MatchPrefix \o <<"4">> \o DotTxt
  /\ MatchPrefix \o <<"3">> \o DotMp4 \in ExpandedBundle
  /\ MatchPrefix \o <<"4">> \o DotMp4 \in ExpandedBundle
  /\ MatchPrefix \o <<"1","2">> \o DotPng \in ExpandedBundle
  /\ match_calls[1].files = {MatchPrefix \o <<"3">> \o DotPng}
  /\ match_calls[2].files = {}
  /\ CountKind(logs, "invalid_match_name") = 0

\* ---------------------------------------------------------------- C20

\* The files of a directory below its textures directory.
TextureFiles(dir) ==
  { f \in dir :
      /\ Len(f) > 9
      /\ SubSeq(f, 1, 9) = <<"t","e","x","t","u","r","e","s","/">> }

\* The names an entry is to be given from a directory: for each of its
\* names that ends with '.txt', the assets of that log's match number, and
\* the texture files under their paths.
ToSplice(entry, dir) ==
  UNION { UNION { Assets(dir, n) : n \in MatchNumbers(entry.files[j]) } :
            j \in { h \in DOMAIN entry.files :
                      /\ Len(entry.files[h]) >= 4
                      /\ SubSeq(entry.files[h], Len(entry.files[h]) - 3,
                                Len(entry.files[h])) = <<".","t","x","t">> } }
  \cup TextureFiles(dir)

\* C20: a spliced archive in the temporary directory holds the names the
\* entry held, in their order, and has been given every name that is to be
\* spliced into it from the expanded bundle, and no other. In mode 'team'
\* with a bundle found, what the first attempt for an entry sends is this
\* spliced archive, larger than the entry when anything was added; no other
\* call of send_file sends a spliced archive.
C20_SplicedArchiveDelivered ==
  /\ \A i \in DOMAIN steps :
       Taken(i, "splice") /\ pc # "exit" /\ ~Final =>
         /\ archive[i].name \in DOMAIN tmpfiles
         /\ tmpfiles[archive[i].name].files = archive[i].files
         /\ tmpfiles[archive[i].name].spliced =>
              BagToSet(tmpfiles[archive[i].name].added) =
                ToSplice(archive[i], ExpandedBundle)
  /\ \A k \in DOMAIN sent :
       IF /\ sent[k].idx > 0
          /\ sent[k].attempt = 1
          /\ team_animation = "True"
          /\ Len(anim_calls) = 1 /\ anim_calls[1].found
       THEN /\ sent[k].spliced
            /\ Taken(sent[k].idx, "splice")
            /\ BagToSet(sent[k].added) =
                 ToSplice(archive[sent[k].idx], ExpandedBundle)
            /\ sent[k].size >= archive[sent[k].idx].size
            /\ sent[k].added # EmptyBag =>
                 sent[k].size > archive[sent[k].idx].size
       ELSE /\ ~sent[k].spliced
            /\ sent[k].added = EmptyBag

\* In mode 'team' the entry team-A.zip, with the logs of matches 3 and 4,
\* was delivered at the first attempt as spliced: with match-3.png and
\* textures/a.png added, and larger.
C20_Witness ==
  /\ team_animation = "True"
  /\ Len(sent) = 1
  /\ sent[1].attempt = 1
  /\ sent[1].result = "True"
  /\ sent[1].spliced
  /\ BagToSet(sent[1].added) =
       {MatchPrefix \o <<"3">> \o DotPng, Textures \o <<"/","a">> \o DotPng}
  /\ sent[1].size > archive[sent[1].idx].size

\* ---------------------------------------------------------------- C21

\* The channels of the alternate guild that a name asked for matches.
MatchingInTestGuild(channel_name) ==
  { c \in TestGuildChannels : SameIgnoringCase(c.name, channel_name) }

\* C21: in debug mode every call of get_channel returns the channel of the
\* command, whatever the name, raises nothing and replies nothing, with or
\* without a guild of the command and in test mode as well. In test mode
\* without debug mode every call raises NoPrivateMessage unless
\* DISCORD_GUILD names a guild the bot knows, and then answers from that
\* guild's channels and not from those of the command's guild: no channel
\* of the name gives None and 'not found', a text channel of the name is
\* returned.
C21_GetChannelOverrides ==
  \A k \in DOMAIN lookups :
    /\ DISCORD_DEBUG =>
         /\ ~lookups[k].raised
         /\ lookups[k].channel = CtxChannel
         /\ lookups[k].reply = ""
    /\ DISCORD_TESTING /\ ~DISCORD_DEBUG =>
         IF env_guild # "known"
         THEN /\ lookups[k].raised
              /\ lookups[k].channel = None
              /\ exc = "NoPrivateMessage"
         ELSE /\ ~lookups[k].raised
              /\ MatchingInTestGuild(lookups[k].name) = {} =>
                   /\ lookups[k].channel = None
                   /\ lookups[k].reply = "channel_not_found"
              /\ \A c \in MatchingInTestGuild(lookups[k].name) :
                   c.type = "text" =>
                     /\ lookups[k].channel = c.name
                     /\ lookups[k].reply = ""

\* In test mode, the command coming from a guild: the name team-M, of which
\* that guild has no channel, gave the channel team-m of the alternate
\* guild, and the name team-V, a voice channel of the command's guild,
\* gave 'not found'.
C21_Witness ==
  /\ DISCORD_TESTING /\ ~DISCORD_DEBUG /\ ctx_guild
  /\ Len(lookups) = 2
  /\ Matching(lookups[1].name) = {}
  /\ lookups[1].channel = <<"t","e","a","m","-","m">>
  /\ Matching(lookups[2].name) # {}
  /\ lookups[2].channel = None
  /\ lookups[2].reply = "channel_not_found"

\* ---------------------------------------------------------------- C22

\* No guild for get_channel to look in, and no debug mode to spare it the
\* look.
NoDestination ==
  /\ ~DISCORD_DEBUG
  /\ IF DISCORD_TESTING THEN env_guild # "known" ELSE ~ctx_guild

\* C22: NoPrivateMessage is raised exactly by the first call of get_channel
\* of a run that has no guild to look in, and is handled nowhere in
\* logs_upload: that call is the only one; when it was made for an entry,
\* that entry is the first with a team code to reach get_team_channel, its
\* steps end there and the entries after it are not taken up; nothing is
\* or was sent, no summary is sent and the BadZipFile handler does not run;
\* the temporary directory is removed and the exception leaves logs_upload.
C22_NoGuildAbortsRun ==
  /\ exc = "NoPrivateMessage" <=> NoDestination /\ lookups # <<>>
  /\ exc = "NoPrivateMessage" =>
       /\ Len(lookups) = 1
       /\ lookups[1].raised
       /\ \A i \in DOMAIN steps : i > idx => steps[i] = <<>>
       /\ \A k \in DOMAIN team_lookups :
            team_lookups[k].matched =>
              /\ k = Len(team_lookups)
              /\ team_lookups[k].raised
              /\ team_lookups[k].idx = idx
              /\ steps[idx][Len(steps[idx])] = "resolve"
       /\ sent = <<>>
       /\ summaries = <<>>
       /\ CountKind(replies, "summary") = 0
       /\ CountKind(replies, "archive_not_valid_zip") = 0
       /\ pc \in {"exit", "raised"}
       /\ pc = "raised" => ~tmpdir /\ created = 1 /\ cleanups = 1

\* A run from a private message, of two entries that both have a team code:
\* it ended with NoPrivateMessage raised for the first, the second never
\* taken up, and the temporary directory removed.
C22_Witness ==
  /\ pc = "raised"
  /\ exc = "NoPrivateMessage"
  /\ Len(archive) = 2
  /\ idx = 1
  /\ WellFormed(archive[1].name)
  /\ WellFormed(archive[2].name)
  /\ pre_test_zipfile(archive[2].name)
  /\ steps[2] = <<>>
  /\ cleanups = 1

\* ---------------------------------------------------------------- C23

\* How many times a step of entry i was taken.
TimesTaken(i, name) == Len(SelectSeq(steps[i], LAMBDA x : x = name))

\* C23: insert_match_files is called at most once for an entry, and only in
\* mode 'team' with a bundle found; no second extraction of the entry is
\* followed by a splice, so the second attempt sends an archive to which
\* nothing was added; and in every archive sent each added name is there
\* once (no entry of the model has two logs of one match).
C23_SingleSplicePerEntry ==
  /\ \A i \in DOMAIN steps :
       /\ TimesTaken(i, "splice") <= 1
       /\ Taken(i, "splice") =>
            /\ team_animation = "True"
            /\ Len(anim_calls) = 1 /\ anim_calls[1].found
       /\ Taken(i, "reextract") =>
            /\ TimesTaken(i, "reextract") = 1
            /\ \A j, h \in DOMAIN steps[i] :
                 steps[i][j] = "reextract" /\ steps[i][h] = "splice" => h < j
  /\ \A n \in DOMAIN tmpfiles :
       \A x \in BagToSet(tmpfiles[n].added) :
         CopiesIn(x, tmpfiles[n].added) = 1
  /\ \A k \in DOMAIN sent :
       /\ sent[k].attempt = 2 => ~sent[k].spliced /\ sent[k].added = EmptyBag
       /\ \A x \in BagToSet(sent[k].added) : CopiesIn(x, sent[k].added) = 1

\* In mode 'team' an entry was spliced once and refused as too large, then
\* extracted again and delivered with nothing added.
C23_Witness ==
  /\ team_animation = "True"
  /\ Len(sent) = 2
  /\ sent[1].idx = sent[2].idx
  /\ sent[1].spliced /\ sent[1].added # EmptyBag /\ sent[1].result = "False"
  /\ sent[2].attempt = 2 /\ ~sent[2].spliced /\ sent[2].result = "True"
  /\ TimesTaken(sent[1].idx, "splice") = 1

\* ---------------------------------------------------------------- C24

\* C24: every name the filter accepts yields a team code: each call of
\* get_team_channel, which is made for accepted names only, extracts a
\* code, and 'Failed to extract a TLA' is never replied.
C24_AcceptedNamesHaveCodes ==
  /\ \A k \in DOMAIN team_lookups :
       /\ TeamZipName(team_lookups[k].name)
       /\ pre_test_zipfile(team_lookups[k].name)
       /\ team_lookups[k].matched
  /\ CountKind(replies, "failed_to_extract_tla") = 0

\* ---------------------------------------------------------------- C25

\* C25: BadZipFile ends a run, and '<zip_name> is not a valid ZIP file' is
\* replied, only when the combined archive itself cannot be opened: a
\* nested archive that is no ZIP file does neither.
C25_OnlyOuterArchiveAborts ==
  /\ exc = "BadZipFile" => ~zip_openable
  /\ CountKind(replies, "archive_not_valid_zip") > 0 => ~zip_openable
  /\ pc = "except" => ~zip_openable

\* ---------------------------------------------------------------- C26

\* An exception has ended the run: it is on its way out of logs_upload, or
\* was BadZipFile and its handler has replied.
Aborted ==
  exc # "none" \/ CountKind(replies, "archive_not_valid_zip") > 0

\* C26: at most one summary is ever sent. A run of logs_upload that ends
\* with no exception has sent exactly one, as its last reply, counting the
\* teams completed, none included. The summary is sent only past the loop
\* and the forwarding of the bundle: once it is sent the run is at its
\* end, where nothing more is sent to a channel. A run that an exception
\* ends, whether it leaves logs_upload or is handled as BadZipFile, has
\* sent none.
C26_SummaryExactlyOnce ==
  /\ Len(summaries) <= 1
  /\ CountKind(replies, "summary") = Len(summaries)
  /\ summaries # <<>> =>
       /\ pc \in {"exit", "returned"}
       /\ exc = "none"
       /\ idx = Len(archive) + 1
       /\ replies[Len(replies)].kind = "summary"
       /\ summaries[1].n = Len(completed_tlas)
       /\ \A i \in DOMAIN steps : Taken(i, "filter")
  /\ pc \in {"for", "extract", "validate", "splice", "resolve", "send",
             "reextract", "resend", "forward", "summary"} => summaries = <<>>
  /\ Entered /\ pc = "returned" /\ ~Aborted => Len(summaries) = 1
  /\ Aborted => summaries = <<>>

\* A run in mode 'separate' ended with the bundle delivered to the common
\* channel, no team delivered, and the one summary, of zero teams.
C26_Witness ==
  /\ pc = "returned"
  /\ ~Aborted
  /\ team_animation = "False"
  /\ Len(archive) = 2
  /\ Delivered = {}
  /\ BundleSends # {}
  /\ sent[Len(sent)].result = "True"
  /\ Len(summaries) = 1
  /\ summaries[1].n = 0

====
